---- MODULE Spec2Model ----
(***************************************************************************)
(* A model of shell.py: the read/parse/dispatch/history loop of main(),    *)
(* the Parser, the CommandManager handlers and the History file.           *)
(*                                                                         *)
(* A Python str is a sequence of one-character strings, so that split,     *)
(* strip, upper and the byte-wise scan of the history file are computed    *)
(* the way the code computes them.                                         *)
(***************************************************************************)
EXTENDS Integers, Sequences, FiniteSets, TLC

VARIABLES
  pc,              \* position of main(): "input", "history", "exited", "crashed", "format", "formatted"
  cwd,             \* the process working directory (os.getcwd())
  files,           \* per directory: the ./.history_shell file of that directory
  source_command,  \* the line input("% ") returned in this iteration
  out,             \* the lines printed so far by this iteration
  handler,         \* the CommandManager method run() invoked in this iteration
  status,          \* the exit status of the process once it has ended
  now,             \* the clock datetime.now() reads
  fuel,            \* input lines the session may still read
  stdin,           \* which input source feeds input()
  st_mode          \* the mode handed to _format_path_permissions_levels

vars == <<pc, cwd, files, source_command, out, handler, status, now, fuel, stdin, st_mode>>

(* Bounds *)
MaxSteps == 2
MaxHist == 3

(***************************************************************************)
(* str methods                                                             *)
(***************************************************************************)
Whitespace == {" ", "\t", "\n", "\r"}

LowerCase == <<"a","b","c","d","e","f","g","h","i","j","k","l","m","n","o","p","q","r","s","t","u","v","w","x","y","z">>
UpperCase == <<"A","B","C","D","E","F","G","H","I","J","K","L","M","N","O","P","Q","R","S","T","U","V","W","X","Y","Z">>

upper_char(c) ==
  IF \E i \in 1..Len(LowerCase) : LowerCase[i] = c
  THEN UpperCase[CHOOSE i \in 1..Len(LowerCase) : LowerCase[i] = c]
  ELSE c

upper(s) == [i \in 1..Len(s) |-> upper_char(s[i])]

RECURSIVE split_ws(_, _, _)
split_ws(s, cur, acc) ==
  IF s = <<>> THEN (IF cur = <<>> THEN acc ELSE Append(acc, cur))
  ELSE IF Head(s) \in Whitespace
       THEN split_ws(Tail(s), <<>>, IF cur = <<>> THEN acc ELSE Append(acc, cur))
       ELSE split_ws(Tail(s), Append(cur, Head(s)), acc)

\* s.split(): the non-empty runs between whitespace
split(s) == split_ws(s, <<>>, <<>>)

RECURSIVE split_on(_, _, _, _)
split_on(s, sep, cur, acc) ==
  IF s = <<>> THEN Append(acc, cur)
  ELSE IF Head(s) = sep
       THEN split_on(Tail(s), sep, <<>>, Append(acc, cur))
       ELSE split_on(Tail(s), sep, Append(cur, Head(s)), acc)

\* s.split(sep): every field between separators, empty ones included
split_sep(s, sep) == split_on(s, sep, <<>>, <<>>)

RECURSIVE lstrip(_)
lstrip(s) == IF s # <<>> /\ Head(s) \in Whitespace THEN lstrip(Tail(s)) ELSE s

RECURSIVE rstrip(_)
rstrip(s) ==
  IF s # <<>> /\ s[Len(s)] \in Whitespace THEN rstrip(SubSeq(s, 1, Len(s) - 1)) ELSE s

strip(s) == rstrip(lstrip(s))

RECURSIVE join(_, _)
join(sep, parts) ==
  IF parts = <<>> THEN <<>>
  ELSE IF Len(parts) = 1 THEN parts[1]
  ELSE parts[1] \o sep \o join(sep, Tail(parts))

startswith(s, prefix) ==
  Len(s) >= Len(prefix) /\ SubSeq(s, 1, Len(prefix)) = prefix

Digits == <<"0","1","2","3","4","5","6","7","8","9">>

RECURSIVE str_int(_)
\* str(n) of a natural number
str_int(n) == IF n < 10 THEN <<Digits[n + 1]>> ELSE str_int(n \div 10) \o <<Digits[(n % 10) + 1]>>

\* str(datetime.now().timestamp()): a float, printed with a fraction and no ":"
str_timestamp(t) == str_int(t) \o <<".","0">>

(***************************************************************************)
(* class Command, class LsArguments                                        *)
(***************************************************************************)
Command_member_names == {<<"E","C","H","O">>, <<"C","D">>, <<"P","W","D">>, <<"L","S">>, <<"E","X","I","T">>, <<"C","L","E","A","R">>, <<"H","I","S","T","O","R","Y">>}

LsArguments_L == "l"
LsArguments_A == "a"

(***************************************************************************)
(* class History                                                           *)
(***************************************************************************)
HISTORY_FILE_NAME == <<".","h","i","s","t","o","r","y","_","s","h","e","l","l">>

NoFile == [exists |-> FALSE, data |-> <<>>]
EmptyFile == [exists |-> TRUE, data |-> <<>>]

\* History.init: open(path, "a").close() creates the file when absent and
\* keeps its content when present
init(file) == IF file.exists THEN file ELSE EmptyFile

\* History.write_history: append "<timestamp>:<source_command>\n"
write_history(file, command, t) ==
  [exists |-> TRUE,
   data |-> file.data \o str_timestamp(t) \o <<":">> \o command \o <<"\n">>]

RECURSIVE scan_back(_, _)
\* the loop of lines 56-57: pos is the 0-based offset of the byte read next;
\* a seek before the start of the file raises OSError, handled by seek(0)
scan_back(data, pos) ==
  IF pos < 0 THEN 0
  ELSE IF data[pos + 1] = "\n" THEN pos + 1
  ELSE scan_back(data, pos - 1)

\* offset of the first byte of the last line
seek_last_line(data) == scan_back(data, Len(data) - 2)

RECURSIVE readline(_, _)
\* file.readline() from offset pos: up to and including the next "\n"
readline(data, pos) ==
  IF pos >= Len(data) THEN <<>>
  ELSE IF data[pos + 1] = "\n" THEN <<"\n">>
  ELSE <<data[pos + 1]>> \o readline(data, pos + 1)

RECURSIVE readlines_from(_, _)
readlines_from(data, pos) ==
  IF pos >= Len(data) THEN <<>>
  ELSE LET l == readline(data, pos) IN <<l>> \o readlines_from(data, pos + Len(l))

\* file.readlines()
readlines(data) == readlines_from(data, 0)

\* value.split(":")[1].strip()
record_command(line) == strip(split_sep(line, ":")[2])

\* History.is_not_equal_last_history_record, for a history file that exists
is_not_equal_last_history_record(data, command) ==
  IF Len(data) = 0 \/ command = <<>> THEN TRUE
  ELSE record_command(readline(data, seek_last_line(data))) # command

\* History.show: the lines it prints
show(data) ==
  LET lines == readlines(data)
  IN [index \in 1..Len(lines) |->
        str_int(index - 1) \o <<" "," ">> \o record_command(lines[index])]

(***************************************************************************)
(* class Parser                                                            *)
(***************************************************************************)
None == <<>>

_tokenize(command) == split(command)

\* a validator that raises for no token
_validate_main_command_any(main_command) == TRUE

\* _validate_main_command: TRUE when no ValueError is raised
_validate_main_command(main_command) == upper(main_command) \in Command_member_names

tokens(command) == _tokenize(command)

\* _parse_main_command: the value it returns
_parse_main_command(command) ==
  IF tokens(command) # <<>> /\ _validate_main_command(tokens(command)[1])
  THEN tokens(command)[1]
  ELSE None

\* _parse_main_command: the lines it prints
_parse_main_command_prints(command) ==
  IF tokens(command) # <<>> /\ ~_validate_main_command(tokens(command)[1])
  THEN <<<<"C","o","m","m","a","n","d"," ","n","o","t"," ","f","o","u","n","d",":"," ">> \o tokens(command)[1]>>
  ELSE <<>>

\* self.tokens[1:]
arguments(command) == IF tokens(command) = <<>> THEN <<>> ELSE Tail(tokens(command))

(***************************************************************************)
(* The file system the session runs in                                     *)
(***************************************************************************)
HOME == <<"/","h">>

\* the directories os.chdir can enter
Dirs == {<<"/","h">>, <<"/","d">>, <<"/","d","/","w">>}

\* what the operating system answers for a path
path_kind(p) ==
  CASE p \in Dirs -> "dir"
    [] p = <<"/","s">> -> "dir_no_access"
    [] p \in {<<"/","h","/","v">>, <<"/","h","/",".","x">>} -> "file"
    [] p = <<"/","h","/","v","/","x">> -> "ENOTDIR"
    [] OTHER -> "ENOENT"

\* os.path.abspath, and the resolution of a relative Path, for the
\* normalised paths of this model
abspath(dir, p) == IF startswith(p, <<"/">>) THEN p ELSE dir \o <<"/">> \o p

\* os.chdir: "ok" or the exception it raises
chdir(p) ==
  CASE path_kind(p) = "dir" -> "ok"
    [] path_kind(p) = "dir_no_access" -> "PermissionError"
    [] path_kind(p) \in {"file", "ENOTDIR"} -> "NotADirectoryError"
    [] OTHER -> "FileNotFoundError"

\* Path.exists
exists(p) == path_kind(p) \in {"dir", "dir_no_access", "file"}

Entry(name, mode, size) ==
  [name |-> name, st_mode |-> mode, st_nlink |-> <<"1">>, owner |-> <<"u">>,
   group |-> <<"g">>, st_size |-> size, st_ctime |-> <<"T">>]

\* the entries of a directory other than the history file, in the order
\* the file system yields them
static_entries(p) ==
  CASE p = <<"/","h">> -> <<Entry(<<".","x">>, 33152, <<"0">>), Entry(<<"v">>, 33188, <<"4">>)>>
    [] p = <<"/","d">> -> <<Entry(<<"w">>, 16877, <<"0">>)>>
    [] OTHER -> <<>>

\* Path.iterdir of a directory that can be read
iterdir(p, fs) ==
  static_entries(p) \o
    (IF fs[p].exists
     THEN <<Entry(HISTORY_FILE_NAME, 33188, str_int(Len(fs[p].data)))>>
     ELSE <<>>)

\* Path.iterdir: "ok" or the exception it raises
iterdir_raises(p) ==
  CASE path_kind(p) = "dir" -> "ok"
    [] path_kind(p) = "dir_no_access" -> "PermissionError"
    [] OTHER -> "NotADirectoryError"

(***************************************************************************)
(* stat, class Permissions                                                 *)
(***************************************************************************)
S_IFDIR == 16384
S_IRUSR == 256
S_IWUSR == 128
S_IXUSR == 64
S_IRGRP == 32
S_IWGRP == 16
S_IXGRP == 8
S_IROTH == 4
S_IWOTH == 2
S_IXOTH == 1

\* stat.S_ISDIR: the file type bits (mode & 0o170000) equal S_IFDIR
S_ISDIR(mode) == ((mode \div 4096) % 16) * 4096 = S_IFDIR

\* bool(st_mode & value) for a value with one bit set
bit_set(mode, value) == (mode \div value) % 2 = 1

Permissions_OWNER == <<S_IRUSR, S_IWUSR, S_IXUSR>>
Permissions_GROUP == <<S_IRGRP, S_IWGRP, S_IXGRP>>
Permissions_OTHERS == <<S_IROTH, S_IWOTH, S_IXOTH>>

PERMISSIONS_SYMBOLS == <<"r", "w", "x">>
EMPTY_PERMISSION_SYMBOL == "-"

\* the loop shared by the three _format_*_permissions methods
format_level(permissions, mode, level) ==
  permissions \o
    [index \in 1..Len(level) |->
       IF bit_set(mode, level[index]) THEN PERMISSIONS_SYMBOLS[index]
       ELSE EMPTY_PERMISSION_SYMBOL]

_format_owner_permissions(permissions, mode) ==
  format_level(permissions, mode, Permissions_OWNER)

\* a group formatter that tests the owner's bits
_format_group_permissions_owner_bits(permissions, mode) ==
  format_level(permissions, mode, Permissions_OWNER)

_format_group_permissions(permissions, mode) ==
  format_level(permissions, mode, Permissions_GROUP)

_format_others_permissions(permissions, mode) ==
  format_level(permissions, mode, Permissions_OTHERS)

_format_path_permissions_levels(mode) ==
  _format_others_permissions(
    _format_group_permissions(
      _format_owner_permissions(IF S_ISDIR(mode) THEN <<"d">> ELSE <<"-">>, mode),
      mode),
    mode)

(***************************************************************************)
(* class CommandManager                                                    *)
(***************************************************************************)
\* the attributes hasattr finds on a CommandManager
Attributes ==
  {<<"e","c","h","o">>, <<"e","x","i","t">>, <<"c","l","e","a","r">>, <<"p","w","d">>, <<"h","i","s","t","o","r","y">>, <<"c","d">>, <<"l","s">>, <<"r","u","n">>,
   <<"_","e","x","e","c","u","t","e","_","c","o","m","m","a","n","d">>, <<"_","a","b","l","e","_","t","o","_","r","e","c","e","i","v","e","_","a","r","g","u","m","e","n","t","s">>, <<"_","p","a","r","s","e","_","l","s","_","a","r","g","u","m","e","n","t","s">>,
   <<"_","f","o","r","m","a","t","_","l","s","_","l","o","n","g","_","l","i","s","t","i","n","g">>, <<"_","f","o","r","m","a","t","_","p","a","t","h","_","p","e","r","m","i","s","s","i","o","n","s","_","l","e","v","e","l","s">>,
   <<"_","f","o","r","m","a","t","_","o","w","n","e","r","_","p","e","r","m","i","s","s","i","o","n","s">>, <<"_","f","o","r","m","a","t","_","g","r","o","u","p","_","p","e","r","m","i","s","s","i","o","n","s">>,
   <<"_","f","o","r","m","a","t","_","o","t","h","e","r","s","_","p","e","r","m","i","s","s","i","o","n","s">>, <<"_","g","e","t","_","n","o","_","h","i","d","d","e","n","_","i","t","e","m","s","_","f","r","o","m","_","p","a","t","h">>,
   <<"_","v","a","l","i","d","a","t","e","_","l","s","_","p","a","t","h","_","a","r","g","u","m","e","n","t">>, <<"_","m","a","i","n","_","c","o","m","m","a","n","d">>, <<"_","a","r","g","u","m","e","n","t","s">>}

hasattr(name) == name \in Attributes

\* run: whether it calls _execute_command
run(command) ==
  _parse_main_command(command) # None /\ hasattr(_parse_main_command(command))

\* inspect.getfullargspec(method).args: bound methods list self and their
\* parameter, static methods list nothing
_able_to_receive_arguments(method) ==
  CASE method = <<"e","c","h","o">> -> <<"self", "arguments">>
    [] method = <<"c","d">> -> <<"self", "argument_path">>
    [] method = <<"l","s">> -> <<"self", "parameters">>
    [] OTHER -> <<>>

\* _execute_command: the argument list the method is called with; <<>> is
\* also the default of the methods called with none
_execute_command(command) ==
  IF arguments(command) # <<>>
     /\ _able_to_receive_arguments(_parse_main_command(command)) # <<>>
  THEN arguments(command)
  ELSE <<>>

_format_ls_long_listing(item) ==
  _format_path_permissions_levels(item.st_mode) \o <<" ">> \o item.st_nlink \o <<" ">>
    \o item.owner \o <<" ">> \o item.group \o <<" "," ">> \o item.st_size \o <<" ">>
    \o item.st_ctime \o <<" ">> \o item.name

\* a filter that keeps the hidden entries
_get_no_hidden_items_from_path_unfiltered(items) == items

_get_no_hidden_items_from_path(items) ==
  SelectSeq(items, LAMBDA item : ~startswith(item.name, <<".">>))

\* _validate_ls_path_argument: the message of the ValueError, <<>> when none
_validate_ls_path_argument(dir, path_argument) ==
  IF exists(abspath(dir, path_argument)) THEN <<>>
  ELSE <<"l","s",":"," ","c","a","n","n","o","t"," ","a","c","c","e","s","s"," ","'">> \o path_argument \o <<"'",":"," ","N","o"," ","s","u","c","h"," ","f","i","l","e"," ","o","r"," ","d","i","r","e","c","t","o","r","y">>

RECURSIVE parse_ls_loop(_, _, _, _)
\* the loop of _parse_ls_arguments over the arguments in iteration order
parse_ls_loop(args, dir, ls_args, path) ==
  IF args = <<>> THEN [ls_args |-> ls_args, path |-> path, error |-> <<>>]
  ELSE IF startswith(Head(args), <<"-">>)
       THEN parse_ls_loop(Tail(args), dir, Tail(Head(args)), path)
       ELSE IF _validate_ls_path_argument(dir, Head(args)) # <<>>
            THEN [ls_args |-> ls_args, path |-> path,
                  error |-> _validate_ls_path_argument(dir, Head(args))]
            ELSE parse_ls_loop(Tail(args), dir, ls_args, abspath(dir, Head(args)))

_parse_ls_arguments(args, dir) == parse_ls_loop(args, dir, <<>>, dir)

Range(s) == {s[i] : i \in DOMAIN s}

\* the orders in which a set(parameters) can be iterated
iteration_orders(parameters) ==
  LET S == Range(parameters)
  IN {o \in [1..Cardinality(S) -> S] : Range(o) = S}

contains(s, c) == \E i \in DOMAIN s : s[i] = c

\* the lines ls prints for a directory it can read
ls_lines(parsed, fs) ==
  LET all == iterdir(parsed.path, fs)
      items == IF parsed.ls_args = <<>> \/ ~contains(parsed.ls_args, LsArguments_A)
               THEN _get_no_hidden_items_from_path(all)
               ELSE all
  IN [i \in 1..Len(items) |->
        IF contains(parsed.ls_args, LsArguments_L)
        THEN _format_ls_long_listing(items[i])
        ELSE items[i].name]

(***************************************************************************)
(* The input source                                                        *)
(***************************************************************************)
\* lines an interactive user may type
AnyLines ==
  {<<"p","w","d">>, <<"P","W","D">>, <<"P","w","d">>, <<"p","w","d"," ","x">>, <<"e","c","h","o"," ","a"," ","b">>, <<"E","C","H","O"," ","a">>, <<"e","c","h","o"," ","a",":","b">>,
   <<"c","d">>, <<"c","d"," ","/","d">>, <<"c","d"," ","/","d"," ","/","w">>, <<"c","d"," ","w">>, <<"c","d"," ","/","n">>, <<"c","d"," ","/","h","/","v">>, <<"c","d"," ","/","h","/","v","/","x">>, <<"c","d"," ","/","s">>,
   <<"l","s">>, <<"l","s"," ","-","l">>, <<"l","s"," ","-","a">>, <<"l","s"," ","-","l","a">>, <<"l","s"," ","-","a","l">>, <<"l","s"," ","-","l"," ","-","a">>, <<"l","s"," ","/","n">>, <<"l","s"," ","/","h","/","v">>,
   <<"l","s"," ","-","a"," ","/","d">>, <<"e","x","i","t">>, <<"c","l","e","a","r">>, <<"h","i","s","t","o","r","y">>, <<"F","o","o">>, <<>>}

\* the lines of a session that exercises the history file
HistoryLines ==
  {<<"p","w","d">>, <<"p","w","d"," ">>, <<"l","s">>, <<"e","c","h","o"," ","a">>, <<"e","c","h","o"," ","a",":","b">>, <<"c","d"," ","/","d">>, <<"c","l","e","a","r">>, <<"h","i","s","t","o","r","y">>,
   <<"e","x","i","t">>, <<"f","o","o">>, <<>>}

input_lines(source) == IF source = "history" THEN HistoryLines ELSE AnyLines

\* history files left by earlier sessions
PriorHome == [exists |-> TRUE, data |-> <<"0",".","0",":","l","s","\n">>]
PriorD == [exists |-> TRUE, data |-> <<"0",".","0",":","p","w","d","\n">>]

(***************************************************************************)
(* main                                                                    *)
(***************************************************************************)
\* lines 243-245: read a line and parse it
reads(line) ==
  /\ pc = "input"
  /\ fuel > 0
  /\ line \in input_lines(stdin)
  /\ source_command' = line
  /\ fuel' = fuel - 1
  /\ UNCHANGED <<now, stdin, st_mode, files>>

\* line 246: run() calls the method named by the main command
calls(line, method) ==
  reads(line) /\ run(line) /\ _parse_main_command(line) = method

\* the method returned: main goes on to the history check
returns(name, printed) ==
  /\ handler' = name
  /\ out' = printed
  /\ pc' = "history"
  /\ UNCHANGED status

\* an exception no handler catches ends the process with a traceback
raises(name) ==
  /\ handler' = name
  /\ out' = <<>>
  /\ pc' = "crashed"
  /\ status' = <<1>>

\* run() returned None without calling a method
run_none ==
  \E line \in input_lines(stdin) :
    /\ reads(line)
    /\ ~run(line)
    /\ returns("none", _parse_main_command_prints(line))
    /\ UNCHANGED cwd

echo ==
  \E line \in input_lines(stdin) :
    /\ calls(line, <<"e","c","h","o">>)
    /\ LET args == IF _execute_command(line) # <<>> THEN _execute_command(line)
                   ELSE arguments(line)
       IN returns("echo", <<join(<<" ">>, args)>>)
    /\ UNCHANGED cwd

\* an exit that returns to the loop instead of ending the process
exit_returns ==
  \E line \in input_lines(stdin) :
    /\ calls(line, <<"e","x","i","t">>)
    /\ returns("exit", <<>>)
    /\ UNCHANGED cwd

\* exit(0) raises SystemExit: the process ends with status 0
exit ==
  \E line \in input_lines(stdin) :
    /\ calls(line, <<"e","x","i","t">>)
    /\ handler' = "exit"
    /\ out' = <<>>
    /\ pc' = "exited"
    /\ status' = <<0>>
    /\ UNCHANGED cwd

clear ==
  \E line \in input_lines(stdin) :
    /\ calls(line, <<"c","l","e","a","r">>)
    /\ returns("clear", <<>>)
    /\ UNCHANGED cwd

pwd ==
  \E line \in input_lines(stdin) :
    /\ calls(line, <<"p","w","d">>)
    /\ returns("pwd", <<cwd>>)
    /\ UNCHANGED cwd

history ==
  \E line \in input_lines(stdin) :
    /\ calls(line, <<"h","i","s","t","o","r","y">>)
    /\ IF files[cwd].exists
       THEN returns("history", show(files[cwd].data))
       ELSE raises("history")
    /\ UNCHANGED cwd

cd ==
  \E line \in input_lines(stdin) :
    /\ calls(line, <<"c","d">>)
    /\ LET argument_path == _execute_command(line)
           path == IF argument_path # <<>> THEN join(<<>>, argument_path) ELSE HOME
           target == abspath(cwd, path)
       IN CASE chdir(target) = "ok" ->
                 cwd' = target /\ returns("cd", <<target>>)
            [] chdir(target) = "FileNotFoundError" ->
                 /\ UNCHANGED cwd
                 /\ returns("cd", <<<<"c","d",":"," ","n","o"," ","s","u","c","h"," ","f","i","l","e"," ","o","r"," ","d","i","r","e","c","t","o","r","y",":"," ">> \o path>>)
            [] OTHER ->
                 UNCHANGED cwd /\ raises("cd")

ls ==
  \E line \in input_lines(stdin) :
    /\ calls(line, <<"l","s">>)
    /\ \E order \in iteration_orders(_execute_command(line)) :
         LET parsed == _parse_ls_arguments(order, cwd)
         IN IF parsed.error # <<>> THEN returns("ls", <<parsed.error>>)
            ELSE IF iterdir_raises(parsed.path) # "ok" THEN raises("ls")
            ELSE returns("ls", ls_lines(parsed, files))
    /\ UNCHANGED cwd

\* lines 248-249: the history check and write, in the working directory
main_history ==
  /\ pc = "history"
  /\ IF ~files[cwd].exists
     THEN /\ pc' = "crashed"
          /\ status' = <<1>>
          /\ UNCHANGED <<files, now>>
     ELSE /\ pc' = "input"
          /\ UNCHANGED status
          /\ IF is_not_equal_last_history_record(files[cwd].data, source_command)
             THEN /\ files' = [files EXCEPT ![cwd] = write_history(@, source_command, now)]
                  /\ now' = now + 1
             ELSE UNCHANGED <<files, now>>
  /\ UNCHANGED <<cwd, source_command, out, handler, fuel, stdin, st_mode>>

\* the state when main enters its loop, History().init() done
InitSession(source, steps) ==
  /\ pc = "input"
  /\ cwd = HOME
  /\ \E prior \in {NoFile, PriorHome} :
       files = [d \in Dirs |->
                  IF d = HOME THEN init(prior)
                  ELSE IF d = <<"/","d">> THEN PriorD ELSE NoFile]
  /\ source_command = <<>>
  /\ out = <<>>
  /\ handler = "none"
  /\ status = <<>>
  /\ now = 1
  /\ fuel = steps
  /\ stdin = source
  /\ st_mode = 0

Init == InitSession("any", MaxSteps)

Next ==
  \/ run_none
  \/ echo
  \/ exit
  \/ clear
  \/ pwd
  \/ history
  \/ cd
  \/ ls
  \/ main_history

Spec == Init /\ [][Next]_vars

InitHistory == InitSession("history", MaxHist)

SpecHistory == InitHistory /\ [][Next]_vars

(***************************************************************************)
(* _format_path_permissions_levels over every mode                         *)
(***************************************************************************)
\* directory, regular file and block device, each with every permission
Modes == {t + p : t \in {S_IFDIR, 32768, 24576}, p \in 0..511}

InitPermissions ==
  /\ pc = "format"
  /\ st_mode \in Modes
  /\ cwd = HOME
  /\ files = [d \in Dirs |-> NoFile]
  /\ source_command = <<>>
  /\ out = <<>>
  /\ handler = "none"
  /\ status = <<>>
  /\ now = 1
  /\ fuel = 0
  /\ stdin = "none"

format_permissions ==
  /\ pc = "format"
  /\ out' = <<_format_path_permissions_levels(st_mode)>>
  /\ pc' = "formatted"
  /\ UNCHANGED <<cwd, files, source_command, handler, status, now, fuel, stdin, st_mode>>

NextPermissions == format_permissions

SpecPermissions == InitPermissions /\ [][NextPermissions]_vars

(***************************************************************************)
(* Properties                                                              *)
(***************************************************************************)
RECURSIVE after_first(_, _)
\* what follows the first occurrence of sep in s
after_first(s, sep) ==
  IF s = <<>> THEN <<>>
  ELSE IF Head(s) = sep THEN Tail(s) ELSE after_first(Tail(s), sep)

\* the command text a history line holds: what was written between the
\* timestamp's ":" and the closing newline
stored_command(line) ==
  LET rest == after_first(line, ":") IN SubSeq(rest, 1, Len(rest) - 1)

\* the command texts of the records of a history file, in file order
stored_commands(file) ==
  LET lines == readlines(file.data)
  IN [i \in 1..Len(lines) |-> stored_command(lines[i])]

\* the iteration in progress has read its line and run the parser and run()
dispatched == pc \in {"history", "exited", "crashed"}

has_token(command) == tokens(command) # <<>>

\* the first token names a command kind, whatever its letter casing
names_command(command) ==
  has_token(command) /\ upper(tokens(command)[1]) \in Command_member_names

handler_of(name) ==
  CASE name = <<"E","C","H","O">> -> "echo"
    [] name = <<"C","D">> -> "cd"
    [] name = <<"P","W","D">> -> "pwd"
    [] name = <<"L","S">> -> "ls"
    [] name = <<"E","X","I","T">> -> "exit"
    [] name = <<"C","L","E","A","R">> -> "clear"
    [] name = <<"H","I","S","T","O","R","Y">> -> "history"

not_found(token) == <<"C","o","m","m","a","n","d"," ","n","o","t"," ","f","o","u","n","d",":"," ">> \o token

\* C1: no two adjacent records of a history file carry the same non-empty
\* command text, so a line processed twice in succession is stored once.
C1_NoAdjacentRepeat ==
  \A d \in Dirs :
    LET r == stored_commands(files[d])
    IN \A i \in 1..(Len(r) - 1) : r[i] # <<>> => r[i] # r[i + 1]

\* C2: when the history check runs for a line whose text differs from the
\* command text of the last stored record, or the history is empty, exactly
\* one record holding the line is appended.
C2_AppendOnDifference ==
  [][(/\ pc = "history"
      /\ files[cwd].exists
      /\ LET r == stored_commands(files[cwd])
         IN r = <<>> \/ r[Len(r)] # source_command)
     => stored_commands(files'[cwd])
          = Append(stored_commands(files[cwd]), source_command)]_vars

\* C3: nothing but exit ends the session: the process never dies of an
\* uncaught exception.
C3_SessionSurvives == pc # "crashed"

\* C4: a line whose first token names a command kind in any letter casing
\* prints no "Command not found" and invokes the handler of that kind.
C4_CaseInsensitiveDispatch ==
  (dispatched /\ names_command(source_command)) =>
    /\ \A i \in DOMAIN out : out[i] # not_found(tokens(source_command)[1])
    /\ handler = handler_of(upper(tokens(source_command)[1]))

\* C5: history prints one line per stored record, in file order, as
\* "<index>  <commandText>" with a zero-based index and the full command
\* text that was recorded.
C5_HistoryDisplay ==
  (pc = "history" /\ handler = "history") =>
    LET r == stored_commands(files[cwd])
    IN out = [i \in 1..Len(r) |-> str_int(i - 1) \o <<" "," ">> \o r[i]]

\* C6: a cd whose path (the arguments joined with no separator) does not
\* exist leaves the working directory unchanged and prints exactly
\* "cd: no such file or directory: <path>".
C6_CdMissingPath ==
  [][(/\ pc = "input"
      /\ pc' # "input"
      /\ handler' = "cd"
      /\ arguments(source_command') # <<>>
      /\ ~exists(abspath(cwd, join(<<>>, arguments(source_command')))))
     => /\ cwd' = cwd
        /\ out' = <<<<"c","d",":"," ","n","o"," ","s","u","c","h"," ","f","i","l","e"," ","o","r"," ","d","i","r","e","c","t","o","r","y",":"," ">>
                      \o join(<<>>, arguments(source_command'))>>]_vars

\* C7: a line whose first token is no command name in any casing invokes no
\* handler, leaves the working directory and the history file alone while it
\* is dispatched, prints only "Command not found: <token>" with the token as
\* typed, and the loop goes on to read the next line.
C7_UnrecognizedNotDispatched ==
  [][/\ (/\ pc = "input"
         /\ pc' # "input"
         /\ has_token(source_command')
         /\ ~names_command(source_command'))
        => /\ handler' = "none"
           /\ cwd' = cwd
           /\ files' = files
           /\ out' = <<not_found(tokens(source_command')[1])>>
           /\ pc' = "history"
     /\ (/\ pc = "history"
         /\ has_token(source_command)
         /\ ~names_command(source_command))
        => /\ pc' = "input"
           /\ cwd' = cwd
           /\ out' = out]_vars

C7_Witness ==
  /\ pc = "input"
  /\ source_command = <<"F","o","o">>
  /\ handler = "none"
  /\ out = <<<<"C","o","m","m","a","n","d"," ","n","o","t"," ","f","o","u","n","d",":"," ","F","o","o">>>>
  /\ fuel < MaxSteps

\* C8: the formatted mode has 10 characters: "d" first iff the mode is a
\* directory, else "-"; then for owner, group and other the letters r, w, x
\* where the bit is set and "-" where it is clear.
C8_PermissionFormat ==
  pc = "formatted" =>
    LET s == out[1]
    IN /\ Len(s) = 10
       /\ s[1] = (IF st_mode \div 4096 = 4 THEN "d" ELSE "-")
       /\ \A k \in 0..2 : \A j \in 0..2 :
            s[2 + 3 * k + j] =
              (IF (st_mode \div (2 ^ (8 - (3 * k + j)))) % 2 = 1
               THEN <<"r", "w", "x">>[j + 1]
               ELSE "-")

C8_Witness ==
  /\ pc = "formatted"
  /\ st_mode = S_IFDIR + 488
  /\ out = <<<<"d","r","w","x","r","-","x","-","-","-">>>>

single_flag_tokens == {<<>>, <<<<"-","l">>>>, <<<<"-","a">>>>, <<<<"-","l","a">>>>, <<<<"-","a","l">>>>}

C10_DispatchBeforeHistory ==
  [][/\ (pc = "input" /\ handler' = "exit")
        => (pc' = "exited" /\ status' = <<0>> /\ files' = files)
     /\ (files' # files) => (pc = "history" /\ handler # "exit")
     /\ (pc = "exited") => (files' = files)]_vars

C10_Witness ==
  /\ pc = "exited"
  /\ status = <<0>>
  /\ handler = "exit"
  /\ stored_commands(files[HOME]) = <<<<"p","w","d">>, <<"l","s">>>>
====
